---- MODULE Spec2Model ----
(***************************************************************************)
(* Model of homework.py: a bot that polls the homework-review API, and     *)
(* relays status changes and failures to one Telegram chat.                *)
(*                                                                         *)
(* Conventions.                                                            *)
(*  - A Python value that may be None is a sequence of length <= 1:        *)
(*    None is <<>>, the value v is <<v>>.                                  *)
(*  - A decoded JSON value is a record tagged by its Python type:          *)
(*    [t |-> "dict", map |-> function], [t |-> "list", items |-> sequence],*)
(*    [t |-> "str", chars |-> string], [t |-> "int", int |-> number],      *)
(*    [t |-> "None"].                                                      *)
(*  - The outcome of a call is Return(value) or Raise(class, text).        *)
(*  - The Russian message texts of the source are rendered in ASCII: the   *)
(*    texts are distinct exactly where the source's are.                   *)
(***************************************************************************)
EXTENDS Integers, Sequences, FiniteSets, TLC

VARIABLES
    pc,                \* position of main(): start, try, fetched, except, else, finally, exited, crashed
    PRACTICUM_TOKEN,   \* constants.PRACTICUM_TOKEN (None, empty or set)
    TELEGRAM_TOKEN,    \* constants.TELEGRAM_TOKEN
    TELEGRAM_CHAT_ID,  \* constants.TELEGRAM_CHAT_ID
    ENDPOINT,          \* constants.ENDPOINT (None, empty or set)
    clock,             \* what int(time.time()) returns now
    current_timestamp, \* main's local: None or an integer
    last_message,      \* main's local: None or the last status text recorded
    last_error,        \* main's local: None or the last error text recorded
    response,          \* main's local: what get_api_answer returned in this cycle
    error,             \* the exception bound by `except Exception as error`, or None
    uncaught,          \* the exception leaving the except clause, or None
    requests_get,      \* this cycle's GET requests: the from_date and the answer of each
    sends,             \* this cycle's calls of bot.send_message
    status_str,        \* this cycle's formatted status message, or None
    prev,              \* the previous cycle: its status_str, sends and requests, and whether it failed
    delivered,         \* the chat: the last text of each category that bot.send_message delivered
    io_ever,           \* which of get, send, sleep ever happened
    slept,             \* the number of time.sleep calls since the last GET request
    logs,              \* this cycle's log records, as level:what
    v_response, v_checked, v_parsed, v_pc   \* the validation pipeline on its own

vars == <<pc, PRACTICUM_TOKEN, TELEGRAM_TOKEN, TELEGRAM_CHAT_ID, ENDPOINT, clock, current_timestamp,
          last_message, last_error, response, error, uncaught, requests_get, sends,
          status_str, prev, delivered, io_ever, slept, logs,
          v_response, v_checked, v_parsed, v_pc>>

loopVars == <<pc, PRACTICUM_TOKEN, TELEGRAM_TOKEN, TELEGRAM_CHAT_ID, ENDPOINT, clock, current_timestamp,
              last_message, last_error, response, error, uncaught, requests_get, sends,
              status_str, prev, delivered, io_ever, slept, logs>>

pipeVars == <<v_response, v_checked, v_parsed, v_pc>>

----------------------------------------------------------------------------
(* Bounds and input domains *)

\* the longest `homeworks` list handed to check_response on its own
MaxHomeworks == 2

\* the longest `homeworks` list the review API answers the poll loop with
\* (main() reads homeworks_list[0] only)
MaxPolledHomeworks == 1

\* the number of sleeps after which the model's clock stands still
MaxTicks == 3

\* constants.RETRY_TIME, in seconds
RETRY_TIME == 600

\* what int(time.time()) returns at startup
StartTime == 1500

\* http.HTTPStatus.OK
HTTP_OK == 200

None == <<>>
Some(v) == <<v>>

Return(v) == [raised |-> FALSE, value |-> v]
Raise(exc, text) == [raised |-> TRUE, exc |-> exc, text |-> text]

PyNone == [t |-> "None"]
PyDict(d) == [t |-> "dict", map |-> d]
PyList(s) == [t |-> "list", items |-> s]
PyStr(s) == [t |-> "str", chars |-> s]
PyInt(n) == [t |-> "int", int |-> n]

\* the status catalog of constants.py: status -> verdict
HOMEWORK_STATUSES ==
    [s \in {"approved", "reviewing", "rejected"} |->
        CASE s = "approved" -> "Great job!"
          [] s = "reviewing" -> "Taken for review."
          [] s = "rejected" -> "Changes requested."]

HomeworkNames == {"proj1"}
StatusValues == {"approved", "rejected", "unknown"}

\* homework records: mappings that hold any subset of the two keys read
HomeworkRecords ==
    UNION { { h \in [ks -> HomeworkNames \cup StatusValues] :
                /\ ("homework_name" \in ks => h["homework_name"] \in HomeworkNames)
                /\ ("status" \in ks => h["status"] \in StatusValues) } :
            ks \in SUBSET {"homework_name", "status"} }

HomeworkLists(max) == UNION { [1..n -> HomeworkRecords] : n \in 0..max }

\* values of the `homeworks` key: a list of records, or something that is no list
HomeworksValues(max) == { PyList(l) : l \in HomeworkLists(max) } \cup { PyStr("none yet") }

\* values of the `current_date` key
CurrentDates == {0, 1000}

\* the mappings the API answers with: any subset of the two keys, or another key
ResponseDicts(max) ==
    { [k \in {"foo"} |-> PyInt(1)] }
    \cup { [k \in {"homeworks"} |-> hv] : hv \in HomeworksValues(max) }
    \cup { [k \in {"current_date"} |-> PyInt(d)] : d \in CurrentDates }
    \cup { [k \in {"homeworks", "current_date"} |->
              IF k = "homeworks" THEN hv ELSE PyInt(d)] :
           hv \in HomeworksValues(max), d \in CurrentDates }

\* decoded bodies: JSON null, a list, a string, or a mapping
JsonBodies(max) ==
    { PyNone, PyList(<<>>), PyStr("maintenance") } \cup { PyDict(d) : d \in ResponseDicts(max) }

\* what requests.get does: it raises, or answers with a status code and a body
\* that decodes (json) or does not (text)
HttpOutcomes ==
    { [kind |-> "raise", text |-> "Connection refused"] }
    \cup { [kind |-> "answer", status_code |-> c, body |-> [decodes |-> FALSE]] :
           c \in {HTTP_OK, 404, 500} }
    \cup { [kind |-> "answer", status_code |-> HTTP_OK, body |-> [decodes |-> TRUE, json |-> j]] :
           j \in JsonBodies(MaxPolledHomeworks) }

\* what bot.send_message does: it returns, or raises a TelegramError
TelegramOutcomes == { [ok |-> TRUE], [ok |-> FALSE, text |-> "Timed out"] }

TokenValues == { None, Some(""), Some("secret") }

EndpointValues == { None, Some(""), Some("https://review.example/api/homework_statuses/") }

\* what requests.get does with the endpoint it is given: without a URL it
\* raises before any request is made
HttpOutcomesAt(endpoint) ==
    IF endpoint # None /\ endpoint[1] # ""
    THEN HttpOutcomes
    ELSE { [kind |-> "raise", text |-> "Invalid URL: No scheme supplied"] }

\* Python truthiness of an optional string, and of an optional integer
TruthyStr(x) == x # None /\ x[1] # ""
TruthyInt(x) == x # None /\ x[1] # 0

----------------------------------------------------------------------------
(* The functions of homework.py *)

\* send_message that catches the TelegramError and raises nothing
send_message_Swallow(message, tg) == Return(PyNone)

\* send_message that raises also after bot.send_message returned
send_message_RaiseAfter(message, tg) ==
    Raise("SendMessageFailure", "Failure sending the message: " \o
                                (IF tg.ok THEN "not logged" ELSE tg.text))

\* bot.send_message followed by send_message's own handling of its outcome
send_message(message, tg) ==
    IF tg.ok
    THEN Return(PyNone)
    ELSE Raise("SendMessageFailure", "Failure sending the message: " \o tg.text)

\* the from_date parameter of the request: `current_timestamp or int(time.time())`
FromDate(timestamp) == IF TruthyInt(timestamp) THEN timestamp[1] ELSE clock

\* the text built at lines 50-51: the second f-string is a statement of its own,
\* so the status code is not part of the message
WrongStatusMessage(status_code) == "Status code of the answer to the request to ENDPOINT is"

\* lines 46-53: the body of the first try statement
RequestStatuses(http) ==
    IF http.kind = "raise"
    THEN Raise("RequestException", http.text)
    ELSE IF http.status_code # HTTP_OK
    THEN Raise("WrongGetApiStatus", WrongStatusMessage(http.status_code))
    ELSE Return(http.body)

\* get_api_answer whose first except clause catches the errors of requests only
get_api_answer_NarrowExcept(timestamp, http) ==
    LET homework_statuses == RequestStatuses(http) IN
    IF homework_statuses.raised /\ homework_statuses.exc = "RequestException"
    THEN Raise("GetApiError", "API service failure: " \o homework_statuses.text)
    ELSE IF homework_statuses.raised
    THEN homework_statuses
    ELSE IF homework_statuses.value.decodes
    THEN Return(homework_statuses.value.json)
    ELSE Return(PyNone)

get_api_answer(timestamp, http) ==
    LET homework_statuses == RequestStatuses(http) IN
    IF homework_statuses.raised
    THEN Raise("GetApiError", "API service failure: " \o homework_statuses.text)
    ELSE IF homework_statuses.value.decodes
    THEN Return(homework_statuses.value.json)
    ELSE Return(PyNone)

\* what the model keeps of a request: its from_date, the status code answered
\* (None when requests.get raised) and whether the body decoded as JSON
RequestRecord(timestamp, http) ==
    [from_date |-> FromDate(timestamp),
     status_code |-> IF http.kind = "raise" THEN None ELSE Some(http.status_code),
     decoded |-> http.kind = "answer" /\ http.body.decodes]

\* what get_api_answer logs
get_api_answer_logs(http) ==
    IF http.kind = "raise" THEN {}
    ELSE IF http.status_code # HTTP_OK THEN {"error:wrong status"}
    ELSE IF http.body.decodes THEN {}
    ELSE {"error:json"}

\* check_response without its test for None
check_response_NoNoneTest(resp) ==
    IF resp.t # "dict"
    THEN Raise("TypeError", "Wrong data type received from the API service.")
    ELSE IF "homeworks" \notin DOMAIN resp.map \/ "current_date" \notin DOMAIN resp.map
    THEN Raise("IncorrectApiAnswer", "Incorrect answer received from the API service.")
    ELSE IF resp.map["homeworks"].t # "list"
    THEN Raise("TypeError", "The answer of the API service has no list of homeworks.")
    ELSE Return(resp.map["homeworks"].items)

\* check_response with the type of `homeworks` tested before the presence of the keys
check_response_TypeFirst(resp) ==
    IF resp.t = "None"
    THEN Raise("EmptyResponse", "No data in the answer of the API service.")
    ELSE IF resp.t # "dict"
    THEN Raise("TypeError", "Wrong data type received from the API service.")
    ELSE IF "homeworks" \in DOMAIN resp.map /\ resp.map["homeworks"].t # "list"
    THEN Raise("TypeError", "The answer of the API service has no list of homeworks.")
    ELSE IF "homeworks" \notin DOMAIN resp.map \/ "current_date" \notin DOMAIN resp.map
    THEN Raise("IncorrectApiAnswer", "Incorrect answer received from the API service.")
    ELSE Return(resp.map["homeworks"].items)

check_response(resp) ==
    IF resp.t = "None"
    THEN Raise("EmptyResponse", "No data in the answer of the API service.")
    ELSE IF resp.t # "dict"
    THEN Raise("TypeError", "Wrong data type received from the API service.")
    ELSE IF "homeworks" \notin DOMAIN resp.map \/ "current_date" \notin DOMAIN resp.map
    THEN Raise("IncorrectApiAnswer", "Incorrect answer received from the API service.")
    ELSE IF resp.map["homeworks"].t # "list"
    THEN Raise("TypeError", "The answer of the API service has no list of homeworks.")
    ELSE Return(resp.map["homeworks"].items)

\* dict.get(key): the value, or None
DictGet(d, key) == IF key \in DOMAIN d THEN Some(d[key]) ELSE None

\* parse_status with `status` tested before `homework_name`
parse_status_StatusFirst(homework) ==
    LET homework_name == DictGet(homework, "homework_name")
        homework_status == DictGet(homework, "status")
        verdict == IF homework_status = None THEN None
                   ELSE DictGet(HOMEWORK_STATUSES, homework_status[1])
    IN  IF "status" \notin DOMAIN homework
        THEN Raise("KeyError", "Homework status not found in the API answer.")
        ELSE IF "homework_name" \notin DOMAIN homework
        THEN Raise("KeyError", "Homework name not found in the API answer.")
        ELSE IF verdict = None
        THEN Raise("KeyError", "Undocumented homework status in the API answer.")
        ELSE Return("Changed review status of work \"" \o homework_name[1]
                    \o "\". " \o verdict[1])

parse_status(homework) ==
    LET homework_name == DictGet(homework, "homework_name")
        homework_status == DictGet(homework, "status")
        verdict == IF homework_status = None THEN None
                   ELSE DictGet(HOMEWORK_STATUSES, homework_status[1])
    IN  IF "homework_name" \notin DOMAIN homework
        THEN Raise("KeyError", "Homework name not found in the API answer.")
        ELSE IF "status" \notin DOMAIN homework
        THEN Raise("KeyError", "Homework status not found in the API answer.")
        ELSE IF verdict = None
        THEN Raise("KeyError", "Undocumented homework status in the API answer.")
        ELSE Return("Changed review status of work \"" \o homework_name[1]
                    \o "\". " \o verdict[1])

\* check_tokens without the chat id
check_tokens_NoChatId == TruthyStr(PRACTICUM_TOKEN) /\ TruthyStr(TELEGRAM_TOKEN)

\* check_tokens with the endpoint among the settings it tests
check_tokens_WithEndpoint ==
    /\ TruthyStr(PRACTICUM_TOKEN) /\ TruthyStr(TELEGRAM_TOKEN) /\ TruthyStr(TELEGRAM_CHAT_ID)
    /\ TruthyStr(ENDPOINT)

check_tokens == TruthyStr(PRACTICUM_TOKEN) /\ TruthyStr(TELEGRAM_TOKEN) /\ TruthyStr(TELEGRAM_CHAT_ID)

\* str(error): a KeyError prints the repr of its argument, the others the text
ExcStr(e) == IF e.exc = "KeyError" THEN "'" \o e.text \o "'" ELSE e.text

\* the error message without the text of the exception
ErrorMessage_NoText(e) == "Program failure"

\* line 139
ErrorMessage(e) == "Program failure: " \o ExcStr(e)

\* the status message sent in every cycle
StatusChanged_Always(text, last) == TRUE

\* line 131
StatusChanged(text, last) == Some(text) # last

\* the error message sent in every failed cycle
ErrorChanged_Always(text, last) == TRUE

\* line 141
ErrorChanged(text, last) == Some(text) # last

\* last_message left as it was after the send
RecordStatus_Keep(text, last) == last

\* line 133: what last_message holds after the send returned
RecordStatus(text, last) == Some(text)

\* time.sleep in the else clause instead of the finally clause
SleepCalls_OnlyClean(caught) == IF caught = None THEN 1 ELSE 0

\* lines 147-148: the calls of time.sleep at the end of a cycle that caught
\* the exception `caught` (None in a cycle that raised nothing)
SleepCalls(caught) == 1

----------------------------------------------------------------------------
(* main() *)

SendRecord(kind, text, tg) == [kind |-> kind, text |-> text, ok |-> tg.ok]

\* the chat after the calls `new` of bot.send_message: a call that returned
\* leaves its text as the last one delivered in its category
Deliver(chat, new) ==
    [k \in {"status", "error"} |->
        IF \E i \in 1..Len(new) : new[i].kind = k /\ new[i].ok
        THEN Some(new[CHOOSE i \in 1..Len(new) :
                        /\ new[i].kind = k /\ new[i].ok
                        /\ \A j \in (i+1)..Len(new) : ~(new[j].kind = k /\ new[j].ok)].text)
        ELSE chat[k]]

NoCycle == [ran |-> FALSE, status_str |-> None, sends |-> <<>>, requests |-> <<>>,
            failed |-> FALSE]

\* lines 123-137: the try body after get_api_answer returned `resp`.
\* exc is the exception raised, or None when the body ran to its end.
TryBody(resp, last, timestamp, tg) ==
    LET checked == check_response(resp)
        Failed(e, lg) ==
            [exc |-> Some(e), last_message |-> last, current_timestamp |-> timestamp,
             sends |-> <<>>, status_str |-> None, logs |-> lg]
    IN  IF checked.raised THEN Failed(checked, {})
        ELSE LET homeworks_list == checked.value IN
        IF Len(homeworks_list) = 0
        THEN Failed(Raise("NoHomeworkInfo", "No information about the homework found."),
                    {"info:no homework"})
        ELSE LET parsed == parse_status(homeworks_list[1]) IN
        IF parsed.raised THEN Failed(parsed, {"error:parse_status"})
        ELSE LET text == parsed.value
                 sent == send_message(text, tg)
                 date == DictGet(resp.map, "current_date")
             IN
        IF StatusChanged(text, last)
        THEN IF sent.raised
             THEN [exc |-> Some(sent), last_message |-> last,
                   current_timestamp |-> timestamp,
                   sends |-> <<SendRecord("status", text, tg)>>,
                   status_str |-> Some(text), logs |-> {}]
             ELSE [exc |-> None, last_message |-> RecordStatus(text, last),
                   current_timestamp |-> Some(date[1].int),
                   sends |-> <<SendRecord("status", text, tg)>>,
                   status_str |-> Some(text), logs |-> {"info:sent"}]
        ELSE [exc |-> None, last_message |-> last,
              current_timestamp |-> Some(date[1].int),
              sends |-> <<>>, status_str |-> Some(text), logs |-> {"debug:unchanged"}]

\* lines 138-143: the except clause, entered with the exception e.
\* exc is the exception that leaves the clause, or None.
ExceptBody(e, last, tg) ==
    LET message == ErrorMessage(e)
        sent == send_message(message, tg)
    IN  IF ErrorChanged(message, last)
        THEN IF sent.raised
             THEN [exc |-> Some(sent), last_error |-> last,
                   sends |-> <<SendRecord("error", message, tg)>>, logs |-> {"error:failure"}]
             ELSE [exc |-> None, last_error |-> Some(message),
                   sends |-> <<SendRecord("error", message, tg)>>,
                   logs |-> {"error:failure", "info:sent"}]
        ELSE [exc |-> None, last_error |-> last, sends |-> <<>>, logs |-> {"error:failure"}]

\* the clock after `calls` calls of time.sleep(RETRY_TIME)
AfterSleep(time, calls) ==
    IF time < StartTime + MaxTicks * RETRY_TIME THEN time + calls * RETRY_TIME ELSE time

\* what follows the finally clause: an exception on its way out leaves the
\* loop and main(); otherwise `while True` runs the next cycle
AfterFinally(exc) == IF exc # None THEN "crashed" ELSE "try"

Init ==
    /\ pc = "start"
    /\ PRACTICUM_TOKEN \in TokenValues
    /\ TELEGRAM_TOKEN \in TokenValues
    /\ TELEGRAM_CHAT_ID \in TokenValues
    /\ ENDPOINT \in EndpointValues
    /\ clock = StartTime
    /\ current_timestamp = None
    /\ last_message = None
    /\ last_error = None
    /\ response = None
    /\ error = None
    /\ uncaught = None
    /\ requests_get = <<>>
    /\ sends = <<>>
    /\ status_str = None
    /\ prev = NoCycle
    /\ delivered = [k \in {"status", "error"} |-> None]
    /\ io_ever = {}
    /\ slept = 0
    /\ logs = {}
    /\ v_response = PyNone
    /\ v_checked = None
    /\ v_parsed = <<>>
    /\ v_pc = "off"

\* lines 113-119
Startup ==
    /\ pc = "start"
    /\ IF ~check_tokens
       THEN /\ pc' = "exited"
            /\ logs' = {"critical:tokens"}
            /\ UNCHANGED current_timestamp
       ELSE /\ pc' = "try"
            /\ current_timestamp' = Some(clock)
            /\ logs' = {}
    /\ UNCHANGED <<PRACTICUM_TOKEN, TELEGRAM_TOKEN, TELEGRAM_CHAT_ID, ENDPOINT, clock,
                   last_message,
                   last_error, response, error, uncaught, requests_get, sends, status_str,
                   prev, delivered, io_ever, slept>>
    /\ UNCHANGED pipeVars

\* line 122: the call of get_api_answer
Fetch ==
    /\ pc = "try"
    /\ \E http \in HttpOutcomesAt(ENDPOINT) :
         LET r == get_api_answer(current_timestamp, http) IN
         /\ requests_get' = Append(requests_get, RequestRecord(current_timestamp, http))
         /\ io_ever' = io_ever \cup {"get"}
         /\ slept' = 0
         /\ logs' = logs \cup get_api_answer_logs(http)
         /\ IF r.raised
            THEN /\ error' = Some(r)
                 /\ pc' = "except"
                 /\ UNCHANGED response
            ELSE /\ response' = Some(r.value)
                 /\ pc' = "fetched"
                 /\ UNCHANGED error
    /\ UNCHANGED <<PRACTICUM_TOKEN, TELEGRAM_TOKEN, TELEGRAM_CHAT_ID, ENDPOINT, clock,
                   current_timestamp,
                   last_message, last_error, uncaught, sends, status_str, prev, delivered>>
    /\ UNCHANGED pipeVars

\* lines 123-137: the rest of the try body. `response` is not read again
\* before line 122 assigns it anew, so it is dropped here.
Process ==
    /\ pc = "fetched"
    /\ \E tg \in TelegramOutcomes :
         LET r == TryBody(response[1], last_message, current_timestamp, tg) IN
         /\ last_message' = r.last_message
         /\ current_timestamp' = r.current_timestamp
         /\ sends' = sends \o r.sends
         /\ delivered' = Deliver(delivered, r.sends)
         /\ io_ever' = IF r.sends # <<>> THEN io_ever \cup {"send"} ELSE io_ever
         /\ status_str' = r.status_str
         /\ logs' = logs \cup r.logs
         /\ error' = r.exc
         /\ pc' = IF r.exc # None THEN "except" ELSE "else"
    /\ response' = None
    /\ UNCHANGED <<PRACTICUM_TOKEN, TELEGRAM_TOKEN, TELEGRAM_CHAT_ID, ENDPOINT, clock,
                   last_error, uncaught,
                   requests_get, prev, slept>>
    /\ UNCHANGED pipeVars

\* lines 138-143
Except ==
    /\ pc = "except"
    /\ \E tg \in TelegramOutcomes :
         LET r == ExceptBody(error[1], last_error, tg) IN
         /\ last_error' = r.last_error
         /\ sends' = sends \o r.sends
         /\ delivered' = Deliver(delivered, r.sends)
         /\ io_ever' = IF r.sends # <<>> THEN io_ever \cup {"send"} ELSE io_ever
         /\ logs' = logs \cup r.logs
         /\ uncaught' = r.exc
    /\ pc' = "finally"
    /\ UNCHANGED <<PRACTICUM_TOKEN, TELEGRAM_TOKEN, TELEGRAM_CHAT_ID, ENDPOINT, clock,
                   current_timestamp,
                   last_message, response, error, requests_get, status_str, prev, slept>>
    /\ UNCHANGED pipeVars

\* the else clause without its log record
Else_NoLog ==
    /\ pc = "else"
    /\ pc' = "finally"
    /\ UNCHANGED <<PRACTICUM_TOKEN, TELEGRAM_TOKEN, TELEGRAM_CHAT_ID, ENDPOINT, clock,
                   current_timestamp, last_message, last_error, response, error, uncaught,
                   requests_get, sends, status_str, prev, delivered, io_ever, slept, logs>>
    /\ UNCHANGED pipeVars

\* lines 144-146
Else ==
    /\ pc = "else"
    /\ logs' = logs \cup {"info:clean"}
    /\ pc' = "finally"
    /\ UNCHANGED <<PRACTICUM_TOKEN, TELEGRAM_TOKEN, TELEGRAM_CHAT_ID, ENDPOINT, clock,
                   current_timestamp,
                   last_message, last_error, response, error, uncaught, requests_get, sends,
                   status_str, prev, delivered, io_ever, slept>>
    /\ UNCHANGED pipeVars

\* lines 147-148, and the step back to line 120 (or out of main)
Finally ==
    /\ pc = "finally"
    /\ slept' = slept + SleepCalls(error)
    /\ io_ever' = IF SleepCalls(error) > 0 THEN io_ever \cup {"sleep"} ELSE io_ever
    /\ clock' = AfterSleep(clock, SleepCalls(error))
    /\ pc' = AfterFinally(uncaught)
    /\ IF AfterFinally(uncaught) = "try"
       THEN /\ prev' = [ran |-> TRUE, status_str |-> status_str, sends |-> sends,
                      requests |-> requests_get, failed |-> error # None]
            /\ sends' = <<>>
            /\ status_str' = None
            /\ requests_get' = <<>>
            /\ logs' = {}
            /\ error' = None
       ELSE UNCHANGED <<prev, sends, status_str, requests_get, logs, error>>
    /\ UNCHANGED <<PRACTICUM_TOKEN, TELEGRAM_TOKEN, TELEGRAM_CHAT_ID, ENDPOINT,
                   current_timestamp,
                   last_message, last_error, response, uncaught, delivered>>
    /\ UNCHANGED pipeVars

Next == Startup \/ Fetch \/ Process \/ Except \/ Else \/ Finally

Spec == Init /\ [][Next]_vars

----------------------------------------------------------------------------
(* The validation pipeline on its own: check_response applied to every value *)
(* get_api_answer can return, then parse_status applied to the records of    *)
(* the list it returned                                                      *)

\* the number of parse_status calls made on one response
MaxParseCalls == 2

InitPipe ==
    /\ pc = "start"
    /\ PRACTICUM_TOKEN = Some("secret")
    /\ TELEGRAM_TOKEN = Some("secret")
    /\ TELEGRAM_CHAT_ID = Some("secret")
    /\ ENDPOINT = Some("https://review.example/api/homework_statuses/")
    /\ clock = StartTime
    /\ current_timestamp = None
    /\ last_message = None
    /\ last_error = None
    /\ response = None
    /\ error = None
    /\ uncaught = None
    /\ requests_get = <<>>
    /\ sends = <<>>
    /\ status_str = None
    /\ prev = NoCycle
    /\ delivered = [k \in {"status", "error"} |-> None]
    /\ io_ever = {}
    /\ slept = 0
    /\ logs = {}
    /\ v_response \in JsonBodies(MaxHomeworks)
    /\ v_checked = None
    /\ v_parsed = <<>>
    /\ v_pc = "check"

\* line 123
Validate ==
    /\ v_pc = "check"
    /\ v_checked' = Some(check_response(v_response))
    /\ v_pc' = "parse"
    /\ UNCHANGED <<v_response, v_parsed>>
    /\ UNCHANGED loopVars

\* line 130, for any record of the list
Format ==
    /\ v_pc = "parse"
    /\ ~v_checked[1].raised
    /\ Len(v_parsed) < MaxParseCalls
    /\ \E i \in 1..Len(v_checked[1].value) :
         LET homework == v_checked[1].value[i] IN
         v_parsed' = Append(v_parsed, [homework |-> homework, outcome |-> parse_status(homework)])
    /\ UNCHANGED <<v_response, v_checked, v_pc>>
    /\ UNCHANGED loopVars

NextPipe == Validate \/ Format

SpecPipe == InitPipe /\ [][NextPipe]_vars

----------------------------------------------------------------------------
(* Claims about the poll loop *)

\* the calls of bot.send_message of category k among the calls l
OfKind(l, k) == { i \in 1..Len(l) : l[i].kind = k }

\* the calls an action added to this cycle's calls (none when the cycle changed)
NewSends == IF Len(sends') >= Len(sends) /\ SubSeq(sends', 1, Len(sends)) = sends
            THEN SubSeq(sends', Len(sends) + 1, Len(sends'))
            ELSE <<>>

\* a cycle is over when its finally clause is reached, or main() was left
CycleOver == pc \in {"finally", "crashed"}

\* C1: once the loop is entered it never exits because of a cycle error,
\* whatever the fetch, the validation, the formatting and every send do:
\* main() is never left with an exception.
C1_LoopNeverExits == pc # "crashed"

C3_SendFailureOnlyLogged ==
    (\E i \in OfKind(sends, "status") : ~sends[i].ok) => OfKind(sends, "error") = {}

\* C4: last_error is the last error message delivered in an earlier cycle and
\* last_message the last status message delivered; the except clause calls
\* bot.send_message with the composed message exactly when that message is
\* not the last error message delivered; a cycle that raised nothing leaves
\* last_error alone and a cycle that failed before its status send leaves
\* last_message alone; a status message is sent exactly when it is not the
\* last status message delivered.
C4_ErrorDedup ==
    [][ /\ last_error = delivered["error"] /\ last_message = delivered["status"]
        /\ pc = "except" =>
             LET message == "Program failure: " \o ExcStr(error[1]) IN
             /\ (NewSends # <<>>) <=> (Some(message) # delivered["error"])
             /\ NewSends # <<>> =>
                  NewSends = <<[kind |-> "error", text |-> message, ok |-> NewSends[1].ok]>>
             /\ last_message' = last_message
        /\ pc \in {"try", "fetched", "else", "finally"} => last_error' = last_error
        /\ (pc = "fetched" /\ status_str' # None) =>
             ((NewSends # <<>>) <=> (status_str' # delivered["status"]))
        /\ (pc = "fetched" /\ status_str' = None) => last_message' = last_message
      ]_vars

\* C4 witness: an error message is suppressed in a failed cycle that follows
\* a cycle without any failure, and a status message was delivered before.
C4_Witness ==
    /\ pc = "finally" /\ error # None /\ sends = <<>>
    /\ last_error = Some(ErrorMessage(error[1]))
    /\ prev.ran /\ prev.status_str # None /\ prev.sends = <<>>
    /\ last_message = prev.status_str

\* C5: in every cycle bot.send_message is called at most once with a status
\* message and at most once with an error message, and each call is made
\* only when the message differs from last_message, respectively last_error.
C5_OneSendPerCategory ==
    [][ /\ Cardinality(OfKind(sends', "status")) <= 1
        /\ Cardinality(OfKind(sends', "error")) <= 1
        /\ \A i \in 1..Len(NewSends) :
             /\ NewSends[i].kind = "status" => Some(NewSends[i].text) # last_message
             /\ NewSends[i].kind = "error" => Some(NewSends[i].text) # last_error
      ]_vars

\* C5 witness: a cycle with one call of each category.
C5_Witness ==
    /\ pc = "finally"
    /\ Cardinality(OfKind(sends, "status")) = 1
    /\ Cardinality(OfKind(sends, "error")) = 1

\* a setting that is missing (None) or empty
Missing(token) == token = None \/ token = Some("")

\* C6: with the API token, the bot token or the chat id missing or empty,
\* main() logs critical and exits before the loop: no request to the API,
\* no message to the chat and no sleep ever happens.
C6_MissingTokenExits ==
    (Missing(PRACTICUM_TOKEN) \/ Missing(TELEGRAM_TOKEN) \/ Missing(TELEGRAM_CHAT_ID))
        => /\ pc \in {"start", "exited"}
           /\ io_ever = {} /\ requests_get = <<>> /\ sends = <<>> /\ slept = 0
           /\ pc = "exited" => "critical:tokens" \in logs

\* C6 witness: main() has exited, only the API token missing.
C6_Witness ==
    /\ pc = "exited" /\ PRACTICUM_TOKEN = None
    /\ ~Missing(TELEGRAM_TOKEN) /\ ~Missing(TELEGRAM_CHAT_ID)

\* a response that passes validation and lists no homework
EmptyHomeworks(resp) ==
    /\ resp.t = "dict"
    /\ {"homeworks", "current_date"} \subseteq DOMAIN resp.map
    /\ resp.map["homeworks"].t = "list"
    /\ resp.map["homeworks"].items = <<>>

NoHomeworkText == "Program failure: No information about the homework found."

\* C7: a cycle whose response is valid with an empty homeworks list raises
\* NoHomeworkInfo: it sends no status message and leaves last_message alone,
\* and its except clause sends exactly one error message, carrying the
\* failure text, when that text differs from last_error, and none otherwise.
C7_EmptyHomeworks ==
    [][ /\ (pc = "fetched" /\ EmptyHomeworks(response[1])) =>
             /\ pc' = "except"
             /\ error' # None /\ error'[1].exc = "NoHomeworkInfo"
             /\ sends' = sends /\ sends = <<>>
             /\ status_str' = None
             /\ last_message' = last_message
             /\ "info:no homework" \in logs'
        /\ (pc = "except" /\ error[1].exc = "NoHomeworkInfo") =>
             /\ sends = <<>>
             /\ last_message' = last_message
             /\ IF last_error # Some(NoHomeworkText)
                THEN /\ Len(sends') = 1
                     /\ sends'[1].kind = "error" /\ sends'[1].text = NoHomeworkText
                ELSE sends' = <<>>
      ]_vars

\* C7 witness: a second consecutive cycle with an empty list sent nothing,
\* the first one having sent the error message.
C7_Witness ==
    /\ pc = "finally" /\ error # None /\ error[1].exc = "NoHomeworkInfo" /\ sends = <<>>
    /\ prev.ran /\ prev.status_str = None
    /\ prev.sends = <<[kind |-> "error", text |-> NoHomeworkText, ok |-> TRUE]>>

\* C8: every cycle sleeps exactly once, at its end, whatever its outcome:
\* a request to the API that is not the first one follows exactly one
\* sleep since the request before it, the finally clause is the only way
\* into the next cycle, and every cycle that started reaches it.
C8_OneSleepPerCycle ==
    [][ /\ Len(requests_get') > Len(requests_get) =>
             /\ requests_get = <<>>
             /\ "get" \in io_ever => slept = 1
             /\ "get" \notin io_ever => slept = 0
        /\ pc = "finally" =>
             /\ slept = 0 /\ slept' = 1 /\ "sleep" \in io_ever'
             /\ Len(requests_get) = 1
        /\ (pc' = "try" /\ pc # "try") => pc \in {"start", "finally"}
        /\ pc \in {"except", "else"} => pc' = "finally"
        /\ pc = "fetched" => pc' \in {"except", "else"}
        /\ pc = "try" => pc' \in {"fetched", "except"}
      ]_vars

\* C8 witness: the second request of a run whose first cycle failed and
\* sent its error message, made after one sleep.
C8_Witness ==
    /\ pc \in {"fetched", "except"} /\ requests_get # <<>> /\ slept = 0
    /\ "sleep" \in io_ever
    /\ prev.ran /\ prev.status_str = None /\ Len(prev.sends) = 1

----------------------------------------------------------------------------
(* Claims about the validation pipeline *)

\* C9: check_response fails with EmptyResponse on None, with TypeError on any
\* other value that is no mapping, with IncorrectApiAnswer on a mapping that
\* lacks `homeworks` or `current_date` (whatever the `homeworks` value), with
\* TypeError on a mapping with both keys whose `homeworks` is no list, and
\* otherwise returns the `homeworks` list as it is.
C9_CheckResponse ==
    v_checked # None =>
        LET r == v_response
            o == v_checked[1]
            Fails(exc) == o.raised /\ o.exc = exc
        IN  CASE r.t = "None" -> Fails("EmptyResponse")
              [] r.t \in {"list", "str", "int"} -> Fails("TypeError")
              [] r.t = "dict" /\ ~({"homeworks", "current_date"} \subseteq DOMAIN r.map)
                   -> Fails("IncorrectApiAnswer")
              [] r.t = "dict" /\ {"homeworks", "current_date"} \subseteq DOMAIN r.map
                   /\ r.map["homeworks"].t # "list"
                   -> Fails("TypeError")
              [] OTHER -> /\ ~o.raised
                          /\ Len(o.value) = Len(r.map["homeworks"].items)
                          /\ \A i \in 1..Len(o.value) : o.value[i] = r.map["homeworks"].items[i]

\* C9 witness: a mapping whose `homeworks` is no list and that lacks
\* `current_date` was rejected for its shape.
C9_Witness ==
    /\ v_checked # None /\ v_response.t = "dict"
    /\ DOMAIN v_response.map = {"homeworks"}
    /\ v_response.map["homeworks"].t = "str"
    /\ v_checked[1].raised /\ v_checked[1].exc = "IncorrectApiAnswer"

\* C10: parse_status fails with the KeyError for the missing name on a record
\* without `homework_name` (also when `status` is missing too), with the
\* KeyError for the missing status on a record with a name and no `status`,
\* with the KeyError for the undocumented status when the status is no key
\* of the catalog, and otherwise returns the sentence made of the name and
\* the verdict; two calls on the same record have the same outcome.
C10_ParseStatus ==
    /\ \A i \in 1..Len(v_parsed) :
         LET h == v_parsed[i].homework
             o == v_parsed[i].outcome
             Fails(text) == o.raised /\ o.exc = "KeyError" /\ o.text = text
         IN  CASE "homework_name" \notin DOMAIN h
                    -> Fails("Homework name not found in the API answer.")
               [] "homework_name" \in DOMAIN h /\ "status" \notin DOMAIN h
                    -> Fails("Homework status not found in the API answer.")
               [] {"homework_name", "status"} \subseteq DOMAIN h
                  /\ h["status"] \notin {"approved", "reviewing", "rejected"}
                    -> Fails("Undocumented homework status in the API answer.")
               [] OTHER
                    -> /\ ~o.raised
                       /\ o.value = "Changed review status of work \"" \o h["homework_name"]
                                    \o "\". " \o HOMEWORK_STATUSES[h["status"]]
    /\ \A i, j \in 1..Len(v_parsed) :
         v_parsed[i].homework = v_parsed[j].homework
            => v_parsed[i].outcome = v_parsed[j].outcome

\* C10 witness: two calls on a record that lacks both keys, both failing for
\* the missing name.
C10_Witness ==
    /\ Len(v_parsed) = 2
    /\ DOMAIN v_parsed[1].homework = {} /\ DOMAIN v_parsed[2].homework = {}
    /\ v_parsed[1].outcome.raised /\ v_parsed[2].outcome.raised
    /\ v_parsed[1].outcome.text = "Homework name not found in the API answer."

----------------------------------------------------------------------------
(* Further claims about the poll loop *)

\* C11: a cycle that raises nothing leaves current_timestamp equal to the
\* current_date of its response, and the request of the next cycle carries
\* exactly that value as from_date, for every current_date >= 0, 0 included.
C11_FromDateIsCurrentDate ==
    [][ /\ (pc = "fetched" /\ pc' = "else") =>
             current_timestamp' = Some(response[1].map["current_date"].int)
        /\ (pc = "try" /\ prev.ran /\ ~prev.failed /\ Len(requests_get') = 1) =>
             requests_get'[1].from_date = current_timestamp[1]
      ]_vars

\* the request of this cycle was answered with a status other than 200, or raised
FetchFailed == requests_get # <<>> /\ requests_get[1].status_code # Some(HTTP_OK)

\* C12: when requests.get raises or answers with a status other than 200,
\* get_api_answer raises GetApiError and nothing else: no response reaches
\* check_response, the except clause handles the cycle, and the cycle makes
\* no status message and logs no clean end.
C12_FetchFailureIsGetApiError ==
    FetchFailed =>
        /\ pc \in {"except", "finally", "crashed"}
        /\ error # None /\ error[1].exc = "GetApiError"
        /\ response = None
        /\ status_str = None
        /\ OfKind(sends, "status") = {}
        /\ "info:clean" \notin logs

\* C12 witness: a cycle answered with 404 is at its finally clause.
C12_Witness ==
    /\ pc = "finally" /\ requests_get # <<>> /\ requests_get[1].status_code = Some(404)
    /\ error # None /\ error[1].exc = "GetApiError"

\* the request of this cycle was answered 200 with a body that is no JSON
Undecoded ==
    /\ requests_get # <<>>
    /\ requests_get[1].status_code = Some(HTTP_OK)
    /\ ~requests_get[1].decoded

EmptyResponseText == "Program failure: No data in the answer of the API service."

\* C13: when the API answers 200 with a body that is no JSON, get_api_answer
\* logs and returns None, check_response raises EmptyResponse in the same
\* cycle, and the cycle is a failed one: the error message is sent when it
\* differs from last_error and not otherwise, no status message is made,
\* and current_timestamp keeps its value.
C13_UndecodableBody ==
    [][ /\ (pc = "try" /\ Len(requests_get') = 1
            /\ requests_get'[1].status_code = Some(HTTP_OK) /\ ~requests_get'[1].decoded) =>
             /\ pc' = "fetched" /\ response' = Some(PyNone)
             /\ "error:json" \in logs'
             /\ error' = None
        /\ (pc = "fetched" /\ Undecoded) =>
             /\ pc' = "except"
             /\ error' # None /\ error'[1].exc = "EmptyResponse"
             /\ sends' = sends /\ sends = <<>>
             /\ status_str' = None
             /\ current_timestamp' = current_timestamp
        /\ (pc = "except" /\ Undecoded) =>
             /\ current_timestamp' = current_timestamp
             /\ status_str' = None
             /\ IF last_error # Some(EmptyResponseText)
                THEN /\ Len(sends') = 1
                     /\ sends'[1].kind = "error" /\ sends'[1].text = EmptyResponseText
                ELSE sends' = <<>>
        /\ (pc = "finally" /\ Undecoded) => current_timestamp' = current_timestamp
      ]_vars

\* C13 witness: a cycle answered with an undecodable body has sent its error
\* message, after a cycle that raised nothing.
C13_Witness ==
    /\ pc = "finally" /\ Undecoded
    /\ sends = <<[kind |-> "error", text |-> EmptyResponseText, ok |-> TRUE]>>
    /\ prev.ran /\ ~prev.failed

\* C14 as stated: the log record of a clean cycle is written in every cycle
\* that raised nothing, and also in a cycle in which the check for an empty
\* homeworks list raised NoHomeworkInfo.
C14_CleanLogAlsoAfterNoHomework ==
    pc = "finally" =>
        /\ error = None => "info:clean" \in logs
        /\ (error # None /\ error[1].exc = "NoHomeworkInfo") => "info:clean" \in logs

\* C14 as amended: the log record of a clean cycle is written in every cycle
\* whose try body raised nothing and in no other cycle; a cycle that raised
\* NoHomeworkInfo does not write it.
C14_CleanLogIffNoException ==
    /\ CycleOver => ("info:clean" \in logs <=> error = None)
    /\ ~CycleOver => "info:clean" \notin logs

\* C14 witness: a cycle that raised NoHomeworkInfo ends without the record.
C14_Witness ==
    /\ pc = "finally" /\ error # None /\ error[1].exc = "NoHomeworkInfo"
    /\ "info:no homework" \in logs /\ "info:clean" \notin logs

\* C15: the error text of a cycle answered with a status other than 200
\* carries that status: after a cycle answered with one such status sent its
\* error message, a cycle answered with another composes a different message.
C15_ErrorTextCarriesStatus ==
    (/\ pc = "except" /\ FetchFailed /\ requests_get[1].status_code # None
     /\ prev.ran /\ prev.requests[1].status_code \notin {None, Some(HTTP_OK)}
     /\ prev.requests[1].status_code # requests_get[1].status_code
     /\ Len(prev.sends) = 1 /\ prev.sends[1].kind = "error" /\ prev.sends[1].ok)
        => /\ prev.sends[1].text # ErrorMessage(error[1])
           /\ Some(ErrorMessage(error[1])) # last_error

AllTokensSet == ~Missing(PRACTICUM_TOKEN) /\ ~Missing(TELEGRAM_TOKEN) /\ ~Missing(TELEGRAM_CHAT_ID)

C17_RecordedAfterDelivery ==
    /\ last_message = delivered["status"]
    /\ last_error = delivered["error"]
    /\ (CycleOver /\ prev.ran /\ status_str # None) =>
         \A i \in OfKind(prev.sends, "status") :
            (~prev.sends[i].ok /\ Some(prev.sends[i].text) = status_str)
               => \E j \in OfKind(sends, "status") : sends[j].text = prev.sends[i].text

\* C17 witness: the status message whose send failed in the previous cycle
\* was sent again and delivered.
C17_Witness ==
    /\ pc = "finally" /\ prev.ran /\ status_str # None
    /\ Len(prev.sends) = 2 /\ prev.sends[1].kind = "status" /\ ~prev.sends[1].ok
    /\ Some(prev.sends[1].text) = status_str
    /\ Len(sends) = 1 /\ sends[1].kind = "status" /\ sends[1].ok
    /\ last_message = status_str

\* C18: a cycle that raised leaves current_timestamp as it was, and the next
\* cycle's request carries the from_date of the failed cycle's request.
C18_FailedCycleKeepsFromDate ==
    [][ /\ (pc' = "except" \/ pc = "except" \/ (pc = "finally" /\ error # None)) =>
             current_timestamp' = current_timestamp
        /\ (pc = "try" /\ prev.ran /\ prev.failed /\ Len(requests_get') = 1) =>
             requests_get'[1].from_date = prev.requests[1].from_date
      ]_vars

\* C19: a cycle never delivers a status message and also sends an error
\* message: after a status send that returned, the cycle raises nothing.
C19_NotBothInOneCycle ==
    /\ OfKind(sends, "error") # {} => \A j \in OfKind(sends, "status") : ~sends[j].ok
    /\ (\E j \in OfKind(sends, "status") : sends[j].ok) => (error = None /\ uncaught = None)

\* C19 witness: a cycle whose status send failed has delivered its error message.
C19_Witness ==
    /\ pc = "finally" /\ Len(sends) = 2
    /\ sends[1].kind = "status" /\ ~sends[1].ok
    /\ sends[2].kind = "error" /\ sends[2].ok
    /\ delivered["status"] = None

====
